---- MODULE Spec2Model ----
(***************************************************************************)
(* Model of matminer/learners/volume_prediction.py:                        *)
(*   VolumePredictor (fit, get_rmse, predict), save_predictions and        *)
(*   VolumePredictorSimple.predict.                                        *)
(*                                                                         *)
(* Arithmetic.  The statistical predictor works on floats; here lengths    *)
(* are integers in 0.001 Angstrom, (i*0.01)**(1/3) is a fixed-point        *)
(* number with three decimals, and the RMSE is a fixed-point number in     *)
(* 0.0001 Angstrom.  The radius-ratio predictor is modelled with exact     *)
(* rationals <<numerator, denominator>> in lowest terms.                   *)
(***************************************************************************)
EXTENDS Integers, Sequences, FiniteSets, TLC

(***************************************************************************)
(* Bounds of the model                                                     *)
(***************************************************************************)
\* depth of nested predict() calls at which the interpreter gives up
RecursionLimit == 6
\* number of structures handed to save_predictions / fit
MaxStructures == 2

(***************************************************************************)
(* Integer helpers                                                         *)
(***************************************************************************)
RECURSIVE CbrtSearch(_, _, _)
CbrtSearch(n, lo, hi) ==
    IF lo >= hi THEN lo
    ELSE LET mid == (lo + hi + 1) \div 2
         IN IF mid * mid * mid <= n THEN CbrtSearch(n, mid, hi)
                                    ELSE CbrtSearch(n, lo, mid - 1)

\* floor of the cube root of n, 0 <= n < 2^31
ICbrt(n) == CbrtSearch(n, 0, 1290)

RECURSIVE SqrtSearch(_, _, _)
SqrtSearch(n, lo, hi) ==
    IF lo >= hi THEN lo
    ELSE LET mid == (lo + hi + 1) \div 2
         IN IF mid * mid <= n THEN SqrtSearch(n, mid, hi)
                              ELSE SqrtSearch(n, lo, mid - 1)

\* floor of the square root of n, 0 <= n < 2^31
ISqrt(n) == SqrtSearch(n, 0, 46340)

RECURSIVE SumOver(_, _)
SumOver(S, f) ==
    IF S = {} THEN 0
    ELSE LET b == CHOOSE e \in S : TRUE
         IN f[b] + SumOver(S \ {b}, f)

Abs(v) == IF v < 0 THEN -v ELSE v

RECURSIVE GCD(_, _)
GCD(m, n) == IF n = 0 THEN m ELSE GCD(n, m % n)

\* rationals: <<numerator, denominator>> in lowest terms, denominator > 0
Rat(n, d) == LET g == GCD(n, d) IN <<n \div g, d \div g>>

RatMul(p, q) ==
    LET g1 == GCD(p[1], q[2])
        g2 == GCD(q[1], p[2])
    IN <<(p[1] \div g1) * (q[1] \div g2), (p[2] \div g2) * (q[2] \div g1)>>

RatInv(p) == <<p[2], p[1]>>

RatDiv(p, q) == RatMul(p, RatInv(q))

RatAdd(p, q) == Rat(p[1] * q[2] + q[1] * p[2], p[2] * q[2])

RatLess(p, q) == p[1] * q[2] < q[1] * p[2]

RatCube(p) == <<p[1] * p[1] * p[1], p[2] * p[2] * p[2]>>

\* cube root of a rational whose numerator and denominator are cubes
RatCbrt(p) == <<ICbrt(p[1]), ICbrt(p[2])>>

(***************************************************************************)
(* Inputs of the statistical predictor                                     *)
(***************************************************************************)
\* bond types, '-'.join(sorted([el1, el2])) kept as the sorted pair
BondTypes == {<<"A", "A">>, <<"A", "B">>}

\* Element(el).atomic_radius and Element(el).average_ionic_radius, in
\* 0.001 Angstrom; an average ionic radius of 0 is "no ionic radius"
Elements == {"A", "B", "C"}

atomic_radius ==
    [el \in Elements |->
        IF el = "A" THEN 1000 ELSE IF el = "B" THEN 1500 ELSE 3000]

average_ionic_radius ==
    [el \in Elements |->
        IF el = "A" THEN 1000 ELSE IF el = "B" THEN 1000 ELSE 0]

\* minimum distances a structure can show at its reference volume
MinDists == {2000, 2400}
BondCounts == {1, 2}
\* average bond lengths a table can hold
AvgValues == {1800, 1996, 2200, 2600}
StartVolumes == {100, 250}

minbond_details == [min_dist : MinDists, no_of_bonds : BondCounts]

\* a structure: the lattice volume (changed by scale_lattice) and the
\* per-bond-type Voronoi minima of its sites at the reference volume
RefMinima ==
    UNION {[D -> minbond_details] : D \in {{<<"A", "B">>}, BondTypes}}

Structures ==
    {[volume |-> v, ref_volume |-> v, ref_minbls |-> m] :
        v \in StartVolumes, m \in RefMinima}

\* AverageBondLengthTable: a partial map bond type -> mean length
Tables == UNION {[D -> AvgValues] : D \in SUBSET BondTypes}

(***************************************************************************)
(* Structure.scale_lattice and VolumePredictor.get_bondlengths             *)
(***************************************************************************)
\* (volume / ref_volume) ** (1/3), two decimals
LinScale(volume, ref_volume) == ICbrt((volume * 1000000) \div ref_volume)

scale_lattice(s, volume) == [s EXCEPT !.volume = volume]

get_bondlengths(s) ==
    [b \in DOMAIN s.ref_minbls |->
        [min_dist |-> (s.ref_minbls[b].min_dist
                          * LinScale(s.volume, s.ref_volume)) \div 100,
         no_of_bonds |-> s.ref_minbls[b].no_of_bonds]]

(***************************************************************************)
(* VolumePredictor.get_rmse                                                *)
(***************************************************************************)
\* (pct * 0.01) ** (1.0 / 3.0), three decimals
VolFactorRoot(pct) == ICbrt(pct * 10000000)

\* volume_factor is passed in hundredths (1 is 100, 0.81 is 81)
get_rmse(table, struct_minbls, pct) ==
    LET bonds == DOMAIN struct_minbls
        y == [b \in bonds |->
                (struct_minbls[b].min_dist * VolFactorRoot(pct)) \div 1000]
        y_avg == [b \in bonds |->
                    IF b \in DOMAIN table
                    THEN table[b]
                    ELSE atomic_radius[b[1]] + atomic_radius[b[2]]]
        sq == [b \in bonds |->
                 (y[b] - y_avg[b]) * (y[b] - y_avg[b])
                     * struct_minbls[b].no_of_bonds]
        n == SumOver(bonds, [b \in bonds |-> struct_minbls[b].no_of_bonds])
    IN ISqrt((SumOver(bonds, sq) * 100) \div n)

ScanLow == 80
ScanHigh == 120
RetryBelow == 85
RetryAbove == 115

(***************************************************************************)
(* State                                                                   *)
(***************************************************************************)
VARIABLES
    pc,                \* position of the running program
    caller,            \* who called VolumePredictor.predict
        avg_bondlengths,   \* VolumePredictor.avg_bondlengths
    bond_lengths,      \* VolumePredictor.bond_lengths
    structs,           \* the Structure objects the caller holds
    ids,               \* the task ids handed to fit, or None
    idx,               \* index of the structure being processed
    given,             \* the structure objects as they were when handed over
    depth,             \* number of nested predict() frames
    starting_volume, predicted_volume, min_rmse, starting_minbls,
    min_percentage, i, \* locals of the innermost predict() frame
    result,            \* <<prediction_results>> once predict has returned
    df,                \* rows appended by save_predictions
    self_cutoff, self_max_cutoff, self_ionic_radii_mix,
                       \* the fields of a VolumePredictorSimple
    site,              \* index of the site in the loop of line 263
    x,                 \* the (site, distance) neighbors found for the site
    cutoff,            \* the local cutoff of line 266
    searches,          \* get_neighbors calls made so far for the site
    unbonded,          \* sites for which the search ended without neighbor
    smallest_distance, \* <<>> for None, else <<ratio>>
    s2                 \* 0, or the index in structs of the returned copy

predict_locals ==
    <<starting_volume, predicted_volume, min_rmse, starting_minbls,
      min_percentage, i>>

fit_vars == <<bond_lengths, ids>>

simple_vars ==
    <<self_cutoff, self_max_cutoff, self_ionic_radii_mix, site, x, cutoff,
      searches, unbonded, smallest_distance, s2>>

\* ids as handed to fit: None, or the list of task ids
NoIds == [is_none |-> TRUE, list |-> <<>>]
IdsFor(structures) ==
    [is_none |-> FALSE, list |-> [k \in 1..Len(structures) |-> k]]

(***************************************************************************)
(* VolumePredictor.__init__ and the module's top level                     *)
(***************************************************************************)
Init ==
    /\ pc = "idle"
    /\ caller = "none"
    /\ avg_bondlengths = <<>>
    /\ bond_lengths = <<>>
    /\ structs = <<>>
    /\ ids = NoIds
    /\ idx = 0
    /\ given = <<>>
    /\ depth = 0
    /\ starting_volume = 0
    /\ predicted_volume = 0
    /\ min_rmse = 0
    /\ starting_minbls = <<>>
    /\ min_percentage = 0
    /\ i = 0
    /\ result = <<>>
    /\ df = <<>>
    /\ self_cutoff = 0
    /\ self_max_cutoff = 0
    /\ self_ionic_radii_mix = 0
    /\ site = 0
    /\ x = {}
    /\ cutoff = 0
    /\ searches = 0
    /\ unbonded = {}
    /\ smallest_distance = <<>>
    /\ s2 = 0

(***************************************************************************)
(* VolumePredictor.get_avg_bondlengths: the loaded table replaces the      *)
(* in-memory one                                                           *)
(***************************************************************************)
get_avg_bondlengths(table) ==
    /\ pc = "idle"
    /\ avg_bondlengths' = table
    /\ pc' = "loaded"
    /\ UNCHANGED <<caller, structs, idx, given, depth,
                   predict_locals, result, df, fit_vars, simple_vars>>

(***************************************************************************)
(* __main__: a = pv.predict(new_struct)                                    *)
(***************************************************************************)
MainCallsPredict(s) ==
    /\ pc = "loaded"
    /\ caller' = "main"
    /\ structs' = <<s>>
    /\ given' = <<s>>
    /\ idx' = 1
    /\ depth' = 1
    /\ pc' = "predict"
    /\ UNCHANGED <<avg_bondlengths, predict_locals, result, df,
                   fit_vars, simple_vars>>

(***************************************************************************)
(* VolumePredictor.predict                                                 *)
(***************************************************************************)
\* lines 137-142: the frame's locals
PredictEnter ==
    /\ pc = "predict"
    /\ LET structure == structs[idx]
       IN /\ starting_volume' = structure.volume
          /\ predicted_volume' = structure.volume
          /\ min_rmse' = get_rmse(avg_bondlengths,
                                  get_bondlengths(structure), 100)
          /\ starting_minbls' = get_bondlengths(structure)
    /\ min_percentage' = 100
    /\ i' = ScanLow
    /\ pc' = "scan"
    /\ UNCHANGED <<caller, avg_bondlengths, structs, idx, given,
                   depth, result, df, fit_vars, simple_vars>>

\* line 148 with <= for <: a later percentage of equal RMSE takes over
Improves_OrEqual(test_rmse, best_rmse) == test_rmse <= best_rmse

\* the comparison of line 148
Improves(test_rmse, best_rmse) == test_rmse < best_rmse

\* lines 143-151: one iteration of the scan
ScanStep ==
    /\ pc = "scan"
    /\ i <= ScanHigh
    /\ LET test_volume == (i * starting_volume) \div 100
           test_rmse == get_rmse(avg_bondlengths, starting_minbls, i)
       IN /\ structs' = [structs EXCEPT
                            ![idx] = scale_lattice(structs[idx], test_volume)]
          /\ IF Improves(test_rmse, min_rmse)
             THEN /\ min_rmse' = test_rmse
                  /\ predicted_volume' = test_volume
                  /\ min_percentage' = i
             ELSE UNCHANGED <<min_rmse, predicted_volume, min_percentage>>
    /\ i' = i + 1
    /\ UNCHANGED <<pc, caller, avg_bondlengths, idx, given,
                   depth, starting_volume, starting_minbls, result, df,
                   fit_vars, simple_vars>>

\* the condition of line 152
NeedsRetry(pct) == pct < RetryBelow \/ pct > RetryAbove

\* lines 152-153: return self.predict(structure)
PredictRecurse ==
    /\ pc = "scan"
    /\ i > ScanHigh
    /\ NeedsRetry(min_percentage)
    /\ depth < RecursionLimit
    /\ depth' = depth + 1
    /\ pc' = "predict"
    /\ UNCHANGED <<caller, avg_bondlengths, structs, idx, given,
                   predict_locals, result, df, fit_vars, simple_vars>>

\* lines 152-153 when no further frame can be pushed: the interpreter
\* raises "maximum recursion depth exceeded" and the call never returns
PredictRecursionError ==
    /\ pc = "scan"
    /\ i > ScanHigh
    /\ NeedsRetry(min_percentage)
    /\ depth = RecursionLimit
    /\ pc' = "recursion_error"
    /\ UNCHANGED <<caller, avg_bondlengths, structs, idx, given,
                   depth, predict_locals, result, df, fit_vars, simple_vars>>

\* the structure field of the namedtuple built at line 155: a reference to
\* the argument, which is the caller's object
ResultStructure(k) == k

\* lines 154-155; the value is handed down through every frame unchanged
PredictReturn ==
    /\ pc = "scan"
    /\ i > ScanHigh
    /\ ~NeedsRetry(min_percentage)
    /\ result' = <<[volume |-> predicted_volume,
                    structure |-> ResultStructure(idx),
                    rmse |-> min_rmse]>>
    /\ pc' = IF caller = "main" THEN "main_done" ELSE "row"
    /\ UNCHANGED <<caller, avg_bondlengths, structs, idx, given,
                   depth, predict_locals, df, fit_vars, simple_vars>>

(***************************************************************************)
(* save_predictions                                                        *)
(***************************************************************************)
\* structures save_predictions is run on
SaveStructures ==
    {s \in Structures :
        /\ s.volume = 100
        /\ DOMAIN s.ref_minbls = {<<"A", "B">>}
        /\ s.ref_minbls[<<"A", "B">>].no_of_bonds = 1}

\* tables the file nelements_2_minbls.pkl can hold
SaveTables == {t \in Tables : DOMAIN t = {<<"A", "B">>}}

\* lines 193-195; line 196 takes the first structure
save_predictions(table, structure_data) ==
    /\ pc = "idle"
    /\ avg_bondlengths' = table
    /\ caller' = "save_predictions"
    /\ structs' = structure_data
    /\ given' = structure_data
    /\ df' = <<>>
    /\ IF Len(structure_data) = 0
       THEN /\ pc' = "saved"
            /\ idx' = 0
            /\ depth' = 0
       ELSE /\ pc' = "predict"
            /\ idx' = 1
            /\ depth' = 1
    /\ UNCHANGED <<predict_locals, result, fit_vars, simple_vars>>

\* the value stored under 'starting_volume' at line 200
RowStartingVolume(structure) == structure.volume

\* lines 198-200, then the next turn of the loop of line 196
AppendRow ==
    /\ pc = "row"
    /\ df' = Append(df, [task_id |-> idx,
                         starting_volume |-> RowStartingVolume(structs[idx]),
                         predicted_volume |-> result[1].volume])
    /\ IF idx < Len(structs)
       THEN /\ idx' = idx + 1
            /\ depth' = 1
            /\ pc' = "predict"
       ELSE /\ pc' = "saved"
            /\ UNCHANGED <<idx, depth>>
    /\ UNCHANGED <<caller, avg_bondlengths, structs, given,
                   predict_locals, result, fit_vars, simple_vars>>

StructureLists ==
    UNION {[1..n -> SaveStructures] : n \in 0..MaxStructures}

(***************************************************************************)
(* VolumePredictor.fit                                                     *)
(***************************************************************************)
\* line 208: namedtuple('struct_data', 'bond_length task_id'), bound only
\* when the module is run as __main__
struct_data_fields == {"bond_length", "task_id"}

\* a call of struct_data with keyword arguments kw: <<the tuple>>, or <<>>
\* when the call raises (the name is unbound, or a keyword is not a field)
struct_data(bound, kw) ==
    IF bound /\ DOMAIN kw = struct_data_fields THEN <<kw>> ELSE <<>>

\* the entry of fit
fit(structures, task_ids) ==
    /\ pc = "idle"
    /\ structs' = structures
    /\ given' = structures
    /\ ids' = task_ids
    /\ idx' = 1
    /\ pc' = "fit"
    /\ UNCHANGED <<caller, avg_bondlengths, bond_lengths, depth,
                   predict_locals, result, df, simple_vars>>

\* lines 93-97 for the structure at idx
FitStructure(run_as_main) ==
    /\ pc = "fit"
    /\ idx <= Len(structs)
    /\ LET struct_minbls == get_bondlengths(structs[idx])
           made == [bond \in DOMAIN struct_minbls |->
                      struct_data(run_as_main,
                          [min_bond_length |-> struct_minbls[bond],
                           task_id |-> ids.list[idx]])]
       IN IF ids.is_none \/ DOMAIN struct_minbls = {}
          THEN /\ idx' = idx + 1
               /\ UNCHANGED <<pc, bond_lengths>>
          ELSE IF \E bond \in DOMAIN struct_minbls : made[bond] = <<>>
          THEN /\ pc' = "fit_raised"
               /\ UNCHANGED <<idx, bond_lengths>>
          ELSE /\ bond_lengths' =
                     [bond \in DOMAIN bond_lengths \cup DOMAIN struct_minbls |->
                        (IF bond \in DOMAIN bond_lengths
                         THEN bond_lengths[bond] ELSE <<>>)
                        \o (IF bond \in DOMAIN struct_minbls
                            THEN made[bond] ELSE <<>>)]
               /\ idx' = idx + 1
               /\ pc' = pc
    /\ UNCHANGED <<caller, avg_bondlengths, structs, ids, given, depth,
                   predict_locals, result, df, simple_vars>>

\* item.min_bond_length is a number only if the tuple has that field and a
\* number was stored in it
HasNumericMinBondLength(item) ==
    /\ "min_bond_length" \in DOMAIN item
    /\ item.min_bond_length \in Int

RECURSIVE SeqTotal(_, _)
SeqTotal(items, k) ==
    IF k = 0 THEN 0 ELSE items[k].min_bond_length + SeqTotal(items, k - 1)

\* lines 98-102
FitAverage ==
    /\ pc = "fit"
    /\ idx > Len(structs)
    /\ IF \A bond \in DOMAIN bond_lengths :
             \A k \in 1..Len(bond_lengths[bond]) :
                 HasNumericMinBondLength(bond_lengths[bond][k])
       THEN /\ avg_bondlengths' =
                  [bond \in DOMAIN avg_bondlengths \cup DOMAIN bond_lengths |->
                     IF bond \in DOMAIN bond_lengths
                     THEN SeqTotal(bond_lengths[bond], Len(bond_lengths[bond]))
                              \div Len(bond_lengths[bond])
                     ELSE avg_bondlengths[bond]]
            /\ pc' = "fit_done"
       ELSE /\ pc' = "fit_raised"
            /\ UNCHANGED avg_bondlengths
    /\ UNCHANGED <<caller, bond_lengths, structs, ids, idx, given, depth,
                   predict_locals, result, df, simple_vars>>

(***************************************************************************)
(* Inputs of the radius-ratio predictor                                    *)
(***************************************************************************)
\* most sites a structure handed to VolumePredictorSimple has
MaxSites == 3

\* __init__ defaults: cutoff=8, max_cutoff=32, ionic_mix=0.2 (in percent)
DefaultCutoff == 8
DefaultMaxCutoff == 32
DefaultIonicMix == 20

Cutoffs == {4, DefaultCutoff}
MaxCutoffs == {DefaultCutoff, DefaultMaxCutoff}

\* an orthorhombic cell, period along x and self_image along y and z, with
\* the sites on the x axis; lengths in Angstrom
Periods == {16, 80}
SelfImages == {9, 40}
SitePositions == {0, 2, 7, 40}

RECURSIVE SortedSeq(_)
SortedSeq(S) ==
    IF S = {} THEN <<>>
    ELSE LET m == CHOOSE e \in S : \A f \in S : e <= f
         IN <<m>> \o SortedSeq(S \ {m})

\* the sets of site positions that fit in a cell of period a
PositionSets(a) ==
    {Q \in SUBSET SitePositions :
        /\ Q # {}
        /\ Cardinality(Q) <= MaxSites
        /\ \A q \in Q : q < a}

SimpleStructuresOf(a, b) ==
    UNION {
        {[volume |-> <<a * b * b, 1>>, ref_volume |-> <<a * b * b, 1>>,
          period |-> a, self_image |-> b, pos |-> SortedSeq(P),
          species |-> sp, is_ordered |-> o] :
            sp \in [1..Cardinality(P) -> Elements], o \in BOOLEAN} :
        P \in PositionSets(a)}

SimpleStructures ==
    UNION {SimpleStructuresOf(a, b) : a \in Periods, b \in SelfImages}

(***************************************************************************)
(* Structure: distances, neighbors, copy                                   *)
(***************************************************************************)
Sites(s) == 1..Len(s.pos)

\* distance from site k to the nearest image of site j (of k itself when
\* j = k) at the reference volume
RefDistance(s, k, j) ==
    IF k = j
    THEN IF s.period < s.self_image THEN s.period ELSE s.self_image
    ELSE LET dx == Abs(s.pos[k] - s.pos[j])
         IN IF dx < s.period - dx THEN dx ELSE s.period - dx

\* the same distance in the lattice as it is now
SiteDistance(s, k, j) ==
    RatMul(<<RefDistance(s, k, j), 1>>,
           RatCbrt(RatDiv(s.volume, s.ref_volume)))

\* structure.get_neighbors(site, r): the (site, distance) pairs within r,
\* one per neighboring site (its nearest image)
get_neighbors(s, k, r) ==
    {<<j, SiteDistance(s, k, j)>> : j \in
        {n \in Sites(s) : ~RatLess(<<r, 1>>, SiteDistance(s, k, n))}}

\* structure.copy() handing back the structure itself
structure_copy_Alias(k) == k

\* structure.copy(): the index of the object the copy lives in, a new one
structure_copy(k) == Len(structs) + 1

(***************************************************************************)
(* VolumePredictorSimple                                                   *)
(***************************************************************************)
\* lines 273-274: the radius of an element, in Angstrom
MixedRadius(el, mix) ==
    IF average_ionic_radius[el] # 0
    THEN Rat(average_ionic_radius[el] * mix + atomic_radius[el] * (100 - mix),
             100000)
    ELSE Rat(atomic_radius[el], 1000)

\* line 275
expected_dist(el1, el2, mix) == RatAdd(MixedRadius(el1, mix), MixedRadius(el2, mix))

\* __init__ and the entry of predict
SimplePredict(c, m, s) ==
    /\ pc = "idle"
    /\ self_cutoff' = c
    /\ self_max_cutoff' = m
    /\ self_ionic_radii_mix' = DefaultIonicMix
    /\ structs' = <<s>>
    /\ given' = <<s>>
    /\ pc' = "sp_check"
    /\ UNCHANGED <<caller, avg_bondlengths, idx, depth, predict_locals,
                   result, df, fit_vars, site, x, cutoff, searches, unbonded,
                   smallest_distance, s2>>

\* line 258 without the test
Rejected_Never(s) == FALSE

\* the test of line 258
Rejected(s) == ~s.is_ordered

\* lines 258-266
SimpleCheck ==
    /\ pc = "sp_check"
    /\ IF Rejected(structs[1])
       THEN /\ pc' = "sp_invalid"
            /\ UNCHANGED <<site, cutoff>>
       ELSE /\ pc' = "sp_search"
            /\ site' = 1
            /\ cutoff' = self_cutoff
    /\ UNCHANGED <<caller, avg_bondlengths, structs, idx, given, depth,
                   predict_locals, result, df, fit_vars, self_cutoff,
                   self_max_cutoff, self_ionic_radii_mix, x, searches,
                   unbonded, smallest_distance, s2>>

\* line 267 with < for <=: no search at max_cutoff itself
KeepsSearching_Strict(found, c, m) == found = {} /\ c < m

\* line 267 testing the cutoff of the search before, not the one to come
KeepsSearching_Late(found, c, m) == found = {} /\ c <= 2 * m

\* the loop condition of line 267
KeepsSearching(found, c, m) == found = {} /\ c <= m

\* lines 267-269: one turn of the cutoff-doubling loop
SimpleSearch ==
    /\ pc = "sp_search"
    /\ KeepsSearching(x, cutoff, self_max_cutoff)
    /\ x' = get_neighbors(structs[1], site, cutoff)
    /\ cutoff' = cutoff * 2
    /\ searches' = searches + 1
    /\ UNCHANGED <<pc, caller, avg_bondlengths, structs, idx, given, depth,
                   predict_locals, result, df, fit_vars, self_cutoff,
                   self_max_cutoff, self_ionic_radii_mix, site, unbonded,
                   smallest_distance, s2>>

\* "not smallest_distance"
Falsy(sd) == sd = <<>> \/ sd[1][1] = 0

\* lines 271-277 over the neighbors found: the smallest dist/expected_dist
\* seen so far
SmallestAfter(sd, s, k, found, mix) ==
    LET ratios ==
            {RatDiv(n[2], expected_dist(s.species[k], s.species[n[1]], mix)) :
                n \in found}
        all == IF Falsy(sd) THEN ratios ELSE ratios \cup {sd[1]}
    IN IF all = {} THEN sd
       ELSE <<CHOOSE r \in all : \A q \in all : ~RatLess(q, r)>>

\* lines 271-277, then the next site of the loop of line 263
SimpleBonds ==
    /\ pc = "sp_search"
    /\ ~KeepsSearching(x, cutoff, self_max_cutoff)
    /\ smallest_distance' =
          SmallestAfter(smallest_distance, structs[1], site, x,
                        self_ionic_radii_mix)
    /\ unbonded' = IF x = {} THEN unbonded \cup {site} ELSE unbonded
    /\ IF site < Len(structs[1].pos)
       THEN /\ site' = site + 1
            /\ x' = {}
            /\ cutoff' = self_cutoff
            /\ searches' = 0
            /\ pc' = pc
       ELSE /\ pc' = "sp_scale"
            /\ UNCHANGED <<site, x, cutoff, searches>>
    /\ UNCHANGED <<caller, avg_bondlengths, structs, idx, given, depth,
                   predict_locals, result, df, fit_vars, self_cutoff,
                   self_max_cutoff, self_ionic_radii_mix, s2>>

\* lines 279-288
SimpleFinish ==
    /\ pc = "sp_scale"
    /\ IF Falsy(smallest_distance)
       THEN /\ pc' = "sp_no_bonds"
            /\ UNCHANGED <<structs, s2>>
       ELSE LET vol_factor == RatCube(RatInv(smallest_distance[1]))
                volume == RatMul(structs[1].volume, vol_factor)
                copy == structure_copy(1)
                heap == IF copy > Len(structs)
                        THEN Append(structs, structs[1]) ELSE structs
            IN /\ structs' =
                     [heap EXCEPT ![copy] = scale_lattice(heap[copy], volume)]
               /\ s2' = copy
               /\ pc' = "sp_returned"
    /\ UNCHANGED <<caller, avg_bondlengths, idx, given, depth, predict_locals,
                   result, df, fit_vars, self_cutoff, self_max_cutoff,
                   self_ionic_radii_mix, site, x, cutoff, searches, unbonded,
                   smallest_distance>>

Next ==
    \/ pc = "idle" /\ \E table \in Tables : get_avg_bondlengths(table)
    \/ pc = "loaded" /\ \E s \in Structures : MainCallsPredict(s)
    \/ PredictEnter
    \/ ScanStep
    \/ PredictRecurse
    \/ PredictRecursionError
    \/ PredictReturn
    \/ pc = "idle" /\ \E table \in SaveTables, sd \in StructureLists :
                         save_predictions(table, sd)
    \/ AppendRow
    \/ pc = "idle" /\ \E sd \in StructureLists :
                         \E t \in {NoIds, IdsFor(sd)} : fit(sd, t)
    \/ \E run_as_main \in BOOLEAN : FitStructure(run_as_main)
    \/ FitAverage
    \/ pc = "idle" /\ \E c \in Cutoffs, m \in MaxCutoffs,
                         s \in SimpleStructures : SimplePredict(c, m, s)
    \/ SimpleCheck
    \/ SimpleSearch
    \/ SimpleBonds
    \/ SimpleFinish

vars ==
    <<pc, caller, avg_bondlengths, bond_lengths, structs, ids,
      idx, given, depth, starting_volume, predicted_volume, min_rmse,
      starting_minbls, min_percentage, i, result, df, self_cutoff,
      self_max_cutoff, self_ionic_radii_mix, site, x, cutoff, searches,
      unbonded, smallest_distance, s2>>

Spec == Init /\ [][Next]_vars

(***************************************************************************)
(* Properties of VolumePredictor.predict                                   *)
(***************************************************************************)
Returned == pc \in {"main_done", "row"}

\* the RMSE the innermost invocation sees at each percentage of the scan
ScanRmse ==
    [p \in ScanLow..ScanHigh |->
        get_rmse(avg_bondlengths, starting_minbls, p)]

\* the percentages at which r is minimal over the whole scan
BestPercentages(r) == {p \in DOMAIN r : \A q \in DOMAIN r : r[p] <= r[q]}

Lowest(S) == CHOOSE p \in S : \A q \in S : p <= q

\* 100, the baseline the scan starts from, when it is among the best
\* percentages, else the lowest of them
BaselineOrLowest(S) == IF 100 \in S THEN 100 ELSE Lowest(S)

ReportsPercentage(r, p) ==
    /\ result[1].volume = (p * starting_volume) \div 100
    /\ result[1].rmse = r[p]

C1_WitnessOther ==
    /\ Returned
    /\ LET best == BestPercentages(ScanRmse)
       IN 100 \notin best /\ Cardinality(best) > 1

\* C2: the structure of the returned result has the returned volume.
C2_ResultStructureHasResultVolume ==
    Returned => structs[result[1].structure].volume = result[1].volume

\* C3: predict always returns; the chain of recursive calls is bounded, so
\* no call ends by exhausting the interpreter's recursion depth.
C3_RetryIsBounded == pc # "recursion_error"

\* an invocation that retries because its best percentage is below 85 is
\* followed by an invocation whose best percentage is 80: the retry at the
\* low end repeats itself
LowEndRetryRepeats ==
    (pc = "scan" /\ i > ScanHigh /\ depth > 1 /\ min_percentage < RetryBelow)
        => min_percentage = ScanLow

\* only chains of low-end retries exhaust the recursion depth
OnlyLowEndExhausts == pc = "recursion_error" => min_percentage = ScanLow

\* C10: each row records the volume the structure had before predict was
\* called on it, and the volume predict returned.
C10_RowRecordsStartingVolume ==
    /\ \A k \in 1..Len(df) : df[k].starting_volume = given[k].volume
    /\ (pc \in {"saved", "predict"} /\ Len(df) > 0)
          => df[Len(df)].predicted_volume = result[1].volume

(***************************************************************************)
(* Properties of VolumePredictor.fit                                       *)
(***************************************************************************)
\* the minima get_bondlengths reports for bond type t over the structures
ObservedMinima(t) ==
    [k \in {n \in 1..Len(given) : t \in DOMAIN get_bondlengths(given[n])} |->
        get_bondlengths(given[k])[t].min_dist]

\* C4: fit with ids completes without raising, and leaves in
\* avg_bondlengths, for every bond type observed in a structure, the
\* arithmetic mean of the structures' minimum distances of that type.
C4_FitAveragesMinima ==
    (pc \in {"fit_done", "fit_raised"} /\ ~ids.is_none) =>
        /\ pc = "fit_done"
        /\ \A t \in BondTypes :
              LET obs == ObservedMinima(t)
              IN DOMAIN obs # {} =>
                    /\ t \in DOMAIN avg_bondlengths
                    /\ avg_bondlengths[t] * Cardinality(DOMAIN obs)
                          = SumOver(DOMAIN obs, obs)

(***************************************************************************)
(* Properties of VolumePredictorSimple.predict                             *)
(***************************************************************************)
SimpleEnded == pc \in {"sp_invalid", "sp_no_bonds", "sp_returned"}

SitePairs(s) == Sites(s) \X Sites(s)

\* the sum of radii the predictor computes for the pair
PairExpected(s, pr) ==
    expected_dist(s.species[pr[1]], s.species[pr[2]], self_ionic_radii_mix)

PairRatio(s, pr) ==
    RatDiv(SiteDistance(s, pr[1], pr[2]), PairExpected(s, pr))

\* the minimum of actualDistance/expectedDistance over all pairs of sites
MinRatio(s) ==
    LET all == {PairRatio(s, pr) : pr \in SitePairs(s)}
    IN CHOOSE r \in all : \A q \in all : ~RatLess(q, r)

\* C5: in the returned structure no two sites are closer than the sum of
\* their radii, some pair is exactly at that sum, and its volume is the
\* input volume times (1/minRatio)^3 with minRatio taken over all pairs.
C5_TightestPairTouches ==
    pc = "sp_returned" =>
        LET out == structs[s2]
        IN /\ \A pr \in SitePairs(out) :
                 ~RatLess(SiteDistance(out, pr[1], pr[2]),
                          PairExpected(out, pr))
           /\ \E pr \in SitePairs(out) :
                 SiteDistance(out, pr[1], pr[2]) = PairExpected(out, pr)
           /\ out.volume =
                 RatMul(given[1].volume,
                        RatCube(RatInv(MinRatio(given[1]))))

\* C6: predict leaves the structure it is given as it was, on every
\* outcome, and the structure it returns is another object.
C6_InputNotMutated ==
    (pc \in {"sp_check", "sp_search", "sp_scale"} \/ SimpleEnded) =>
        /\ structs[1] = given[1]
        /\ (pc = "sp_returned" => s2 # 1 /\ s2 \in DOMAIN structs)

\* a call that returned a copy whose lattice was rescaled
C6_Witness ==
    /\ pc = "sp_returned"
    /\ structs[s2].volume # given[1].volume

\* the largest cutoff the doubling loop searches with
RECURSIVE LargestCutoff(_, _)
LargestCutoff(c, m) == IF 2 * c <= m THEN LargestCutoff(2 * c, m) ELSE c

\* the search for site k finds no neighbor even at the largest cutoff
NoNeighborFound(k) ==
    \/ self_cutoff > self_max_cutoff
    \/ get_neighbors(given[1], k,
                     LargestCutoff(self_cutoff, self_max_cutoff)) = {}

\* C7 as stated: the call fails as soon as some site has no neighbor found;
\* no structure is returned while a site had none.
C7_AnySiteWithoutNeighborFails ==
    (SimpleEnded /\ given[1].is_ordered
        /\ \E k \in Sites(given[1]) : NoNeighborFound(k))
            => pc = "sp_no_bonds"

\* C7, amended: the call fails with the no-bonds error exactly when no site
\* of the structure had a neighbor found; a site without neighbor is
\* skipped when another site has one, and the structure is returned.
C7_FailsOnlyWhenNoSiteHasNeighbor ==
    (SimpleEnded /\ given[1].is_ordered) =>
        /\ unbonded = {k \in Sites(given[1]) : NoNeighborFound(k)}
        /\ pc = "sp_no_bonds" <=> unbonded = Sites(given[1])
        /\ pc = "sp_returned" <=> unbonded # Sites(given[1])

\* a structure was returned although a site had no neighbor found
C7_Witness ==
    /\ pc = "sp_returned"
    /\ \E k \in Sites(given[1]) : NoNeighborFound(k)

\* every pair of sites, and every site and its own image, is farther apart
\* than max_cutoff
AllFartherThanMaxCutoff(s) ==
    \A pr \in SitePairs(s) :
        RatLess(<<self_max_cutoff, 1>>, SiteDistance(s, pr[1], pr[2]))

\* C8: a disordered input ends in the validation error before any neighbor
\* search, and an input whose sites are all farther apart than max_cutoff
\* ends in the no-bonds error; no structure is returned in either case.
C8_ErrorOutcomes ==
    /\ (pc \in {"sp_search", "sp_scale"} \/ SimpleEnded)
          => (~given[1].is_ordered
                 => /\ pc = "sp_invalid"
                    /\ site = 0 /\ searches = 0 /\ x = {}
                    /\ s2 = 0 /\ Len(structs) = 1)
    /\ (SimpleEnded /\ given[1].is_ordered
           /\ AllFartherThanMaxCutoff(given[1]))
          => pc = "sp_no_bonds" /\ s2 = 0 /\ Len(structs) = 1

C8_Witness ==
    /\ pc = "sp_no_bonds"
    /\ Len(given[1].pos) > 1
    /\ AllFartherThanMaxCutoff(given[1])

C8_WitnessDisordered == pc = "sp_invalid"

RECURSIVE Pow2(_)
Pow2(n) == IF n = 0 THEN 1 ELSE 2 * Pow2(n - 1)

InSimplePredict == pc \in {"sp_search", "sp_scale"} \/ SimpleEnded

\* C9 as stated: for 0 < cutoff <= max_cutoff the loop makes at most
\* log2(max_cutoff/cutoff) neighbor searches for a site.
C9_AtMostLog2Searches ==
    (InSimplePredict /\ self_cutoff <= self_max_cutoff)
        => Pow2(searches) * self_cutoff <= self_max_cutoff

\* C9, amended: for 0 < cutoff <= max_cutoff the loop makes at most
\* floor(log2(max_cutoff/cutoff)) + 1 neighbor searches for a site: three,
\* not two, with the defaults cutoff=8 and max_cutoff=32.
C9_AtMostLog2PlusOneSearches ==
    (InSimplePredict /\ self_cutoff <= self_max_cutoff /\ searches > 0)
        => Pow2(searches - 1) * self_cutoff <= self_max_cutoff

\* a site without neighbor searched with the defaults: three searches
C9_Witness ==
    /\ pc = "sp_search"
    /\ self_cutoff = DefaultCutoff
    /\ self_max_cutoff = DefaultMaxCutoff
    /\ x = {}
    /\ searches = 3
====
